---- MODULE Spec2Model ----
(***************************************************************************)
(* GDataDocumentsQuery (gdata/services/documents/gdata-documents-query.c): *)
(* the filter fields of a documents query, their setters, the GObject      *)
(* property-write path, and get_query_uri, which renders the fields into   *)
(* the request URI after chaining up to GDataQuery.                        *)
(*                                                                         *)
(* A C string is a sequence of one-character strings.  A nullable string   *)
(* (gchar * that may be NULL) is a sequence of length 0 (NULL) or 1 (the   *)
(* string, possibly the empty string).                                     *)
(***************************************************************************)
EXTENDS Integers, Sequences, FiniteSets

VARIABLES show_deleted, show_folders, exact_title, folder_id, title,
          collaborator_addresses, reader_addresses,
          entry_id, q,
          call, failed,
          query_uri, params_started, chained_uri, chained_started

fields == <<show_deleted, show_folders, exact_title, folder_id, title,
            collaborator_addresses, reader_addresses>>

base == <<entry_id, q>>

result == <<query_uri, params_started, chained_uri, chained_started>>

vars == <<fields, base, call, failed, result>>

----------------------------------------------------------------------------
(* Bounds and input alphabets *)

MaxAddresses == 2

NULL == <<>>

Str(s) == <<s>>

EmptyString == << >>

Titles == { EmptyString, <<"A", " ", "b">> }

FolderIds == { EmptyString, <<"a", ":">> }

Addresses == { <<"a", "@">>, <<"b", ";">> }

EntryIds == { <<"e">> }

Qs == { <<"x">> }

FeedUris == { <<"f">>, <<"h", "/", "d">> }

Nullable(S) == { NULL } \cup { Str(s) : s \in S }

----------------------------------------------------------------------------
(* g_string_append_uri_escaped (string, unescaped, NULL, TRUE): unreserved  *)
(* characters (ALPHA, DIGIT, "-", ".", "_", "~") are copied, every other    *)
(* ASCII character becomes "%" and its two upper-case hexadecimal digits.   *)

Unreserved == { "a", "b", "d", "e", "f", "h", "x", "A", "-", ".", "_", "~" }

HexOf(c) ==
    CASE c = " " -> <<"2", "0">>
      [] c = "%" -> <<"2", "5">>
      [] c = "&" -> <<"2", "6">>
      [] c = "/" -> <<"2", "F">>
      [] c = ":" -> <<"3", "A">>
      [] c = ";" -> <<"3", "B">>
      [] c = "=" -> <<"3", "D">>
      [] c = "?" -> <<"3", "F">>
      [] c = "@" -> <<"4", "0">>

RECURSIVE uri_escaped(_)
uri_escaped(s) ==
    IF s = << >> THEN << >>
    ELSE (IF Head(s) \in Unreserved THEN <<Head(s)>> ELSE <<"%">> \o HexOf(Head(s)))
         \o uri_escaped(Tail(s))

----------------------------------------------------------------------------
(* The string literals of get_query_uri *)

LitFolder == <<"/", "f", "o", "l", "d", "e", "r", "%", "3", "A">>

LitWriter == <<"w", "r", "i", "t", "e", "r", "=">>

LitReader == <<"r", "e", "a", "d", "e", "r", "=">>

LitTitle == <<"t", "i", "t", "l", "e", "=">>

LitTitleExact == <<"&", "t", "i", "t", "l", "e", "-", "e", "x", "a", "c", "t", "=", "t", "r", "u", "e">>

LitShowDeletedTrue == <<"s", "h", "o", "w", "d", "e", "l", "e", "t", "e", "d", "=", "t", "r", "u", "e">>

LitShowDeletedFalse == <<"s", "h", "o", "w", "d", "e", "l", "e", "t", "e", "d", "=", "f", "a", "l", "s", "e">>

LitShowFoldersTrue == <<"&", "s", "h", "o", "w", "f", "o", "l", "d", "e", "r", "s", "=", "t", "r", "u", "e">>

LitShowFoldersFalse == <<"&", "s", "h", "o", "w", "f", "o", "l", "d", "e", "r", "s", "=", "f", "a", "l", "s", "e">>

LitQ == <<"q", "=">>

----------------------------------------------------------------------------
(* URI composition.  The in-progress buffer and the params_started flag are *)
(* threaded through the steps as a record [uri, started].                   *)

(* gdata_query_get_query_uri: the buffer starts as the feed URI, which      *)
(* carries no query string, with no parameter started.                      *)
query_context(feed_uri) == [uri |-> feed_uri, started |-> FALSE]

APPEND_SEP_no_mark(ctx) ==
    [uri |-> Append(ctx.uri, IF ctx.started = FALSE THEN "?" ELSE "&"),
     started |-> ctx.started]

(* #define APPEND_SEP *)
APPEND_SEP(ctx) ==
    [uri |-> Append(ctx.uri, IF ctx.started = FALSE THEN "?" ELSE "&"),
     started |-> TRUE]

append_folder_any_entry(ctx, eid, fid) ==
    IF fid # NULL
    THEN [ctx EXCEPT !.uri = @ \o LitFolder \o uri_escaped(fid[1])]
    ELSE ctx

(* if (entry_id == NULL && priv->folder_id != NULL) ... *)
append_folder(ctx, eid, fid) ==
    IF eid = NULL /\ fid # NULL
    THEN [ctx EXCEPT !.uri = @ \o LitFolder \o uri_escaped(fid[1])]
    ELSE ctx

(* GDataQuery's get_query_uri, the parent class step: a query with an entry *)
(* ID gets the entry's path segment and nothing else; otherwise the generic *)
(* parameter q is appended when set.                                        *)
parent_get_query_uri(ctx, eid, qq) ==
    IF eid # NULL
    THEN [ctx EXCEPT !.uri = @ \o <<"/">> \o uri_escaped(eid[1])]
    ELSE IF qq # NULL
         THEN LET c == APPEND_SEP(ctx)
              IN  [c EXCEPT !.uri = @ \o LitQ \o uri_escaped(qq[1])]
         ELSE ctx

(* for (a = a->next; a != NULL; a = a->next) { ';' ; escaped address } *)
RECURSIVE address_loop(_)
address_loop(list) ==
    IF list = << >> THEN << >>
    ELSE <<";">> \o uri_escaped(Head(list).address) \o address_loop(Tail(list))

RECURSIVE address_loop_trailing(_)
address_loop_trailing(list) ==
    IF list = << >> THEN << >>
    ELSE uri_escaped(Head(list).address) \o <<";">> \o address_loop_trailing(Tail(list))

append_writer_trailing(ctx, list) ==
    IF list # << >>
    THEN LET c == APPEND_SEP(ctx)
         IN  [c EXCEPT !.uri = @ \o LitWriter \o address_loop_trailing(list)]
    ELSE ctx

(* if (priv->collaborator_addresses != NULL) { ... "writer=" ... } *)
append_writer(ctx, list) ==
    IF list # << >>
    THEN LET c == APPEND_SEP(ctx)
         IN  [c EXCEPT !.uri = @ \o LitWriter \o uri_escaped(Head(list).address)
                                  \o address_loop(Tail(list))]
    ELSE ctx

(* if (priv->reader_addresses != NULL) { ... "reader=" ... } *)
append_reader(ctx, list) ==
    IF list # << >>
    THEN LET c == APPEND_SEP(ctx)
         IN  [c EXCEPT !.uri = @ \o LitReader \o uri_escaped(Head(list).address)
                                  \o address_loop(Tail(list))]
    ELSE ctx

append_title_nonempty(ctx, t, exact) ==
    IF t # NULL /\ t[1] # EmptyString
    THEN LET c == APPEND_SEP(ctx)
         IN  [c EXCEPT !.uri = @ \o LitTitle \o uri_escaped(t[1])
                                  \o (IF exact = TRUE THEN LitTitleExact ELSE << >>)]
    ELSE ctx

(* if (priv->title != NULL) { ... "title=" ... "&title-exact=true" } *)
append_title(ctx, t, exact) ==
    IF t # NULL
    THEN LET c == APPEND_SEP(ctx)
         IN  [c EXCEPT !.uri = @ \o LitTitle \o uri_escaped(t[1])
                                  \o (IF exact = TRUE THEN LitTitleExact ELSE << >>)]
    ELSE ctx

append_show_swapped(ctx, sd, sf) ==
    LET c == APPEND_SEP(ctx)
    IN  [c EXCEPT !.uri = @ \o (IF sf = TRUE THEN LitShowDeletedTrue ELSE LitShowDeletedFalse)
                             \o (IF sd = TRUE THEN LitShowFoldersTrue ELSE LitShowFoldersFalse)]

(* APPEND_SEP; showdeleted=...; &showfolders=... *)
append_show(ctx, sd, sf) ==
    LET c == APPEND_SEP(ctx)
    IN  [c EXCEPT !.uri = @ \o (IF sd = TRUE THEN LitShowDeletedTrue ELSE LitShowDeletedFalse)
                             \o (IF sf = TRUE THEN LitShowFoldersTrue ELSE LitShowFoldersFalse)]

documents_params_reader_first(ctx, collab, readers, t, exact, sd, sf) ==
    append_show(append_title(append_writer(append_reader(ctx, readers), collab),
                             t, exact), sd, sf)

(* The parameters appended after the chain-up, in source order. *)
documents_params(ctx, collab, readers, t, exact, sd, sf) ==
    append_show(append_title(append_reader(append_writer(ctx, collab), readers),
                             t, exact), sd, sf)

after_chain_up_no_return(ctx, eid, collab, readers, t, exact, sd, sf) ==
    documents_params(ctx, collab, readers, t, exact, sd, sf)

(* if (entry_id != NULL) return; and the rest of the function *)
after_chain_up(ctx, eid, collab, readers, t, exact, sd, sf) ==
    IF eid # NULL
    THEN ctx
    ELSE documents_params(ctx, collab, readers, t, exact, sd, sf)

----------------------------------------------------------------------------
(* Calls.  call records the last call made on the query and its arguments;  *)
(* failed records that a g_return_if_fail precondition stopped it; the      *)
(* result variables hold what the last get_query_uri produced (the final    *)
(* buffer and flag, and the buffer and flag as the chain-up left them) and  *)
(* are empty after any other call.                                          *)

Call(op, prop, str, flag) == [op |-> op, prop |-> prop, str |-> str, flag |-> flag]

NoResult ==
    /\ query_uri' = << >>
    /\ params_started' = FALSE
    /\ chained_uri' = << >>
    /\ chained_started' = FALSE

(* gdata_gd_email_address_new (address, relation_type, label, is_primary) *)
gdata_gd_email_address_new(address, relation_type, label, is_primary) ==
    [address |-> address, relation_type |-> relation_type,
     label |-> label, is_primary |-> is_primary]

(* gdata_documents_query_init: the private structure is zero-filled *)
Init ==
    /\ show_deleted = FALSE
    /\ show_folders = FALSE
    /\ exact_title = FALSE
    /\ folder_id = NULL
    /\ title = NULL
    /\ collaborator_addresses = << >>
    /\ reader_addresses = << >>
    /\ entry_id = NULL
    /\ q = NULL
    /\ call = Call("gdata_documents_query_new", "", NULL, FALSE)
    /\ failed = FALSE
    /\ query_uri = << >>
    /\ params_started = FALSE
    /\ chained_uri = << >>
    /\ chained_started = FALSE

set_show_deleted_both(b) ==
    /\ show_deleted' = b
    /\ show_folders' = b
    /\ UNCHANGED <<exact_title, folder_id, title,
                   collaborator_addresses, reader_addresses>>

set_show_deleted(b) ==
    /\ show_deleted' = b
    /\ UNCHANGED <<show_folders, exact_title, folder_id, title,
                   collaborator_addresses, reader_addresses>>

set_show_folders(b) ==
    /\ show_folders' = b
    /\ UNCHANGED <<show_deleted, exact_title, folder_id, title,
                   collaborator_addresses, reader_addresses>>

set_folder_id(id) ==
    /\ folder_id' = id
    /\ UNCHANGED <<show_deleted, show_folders, exact_title, title,
                   collaborator_addresses, reader_addresses>>

set_title_reset_exact(t, exact) ==
    /\ title' = t
    /\ exact_title' = (IF t = NULL THEN FALSE ELSE exact)
    /\ UNCHANGED <<show_deleted, show_folders, folder_id,
                   collaborator_addresses, reader_addresses>>

set_title(t, exact) ==
    /\ title' = t
    /\ exact_title' = exact
    /\ UNCHANGED <<show_deleted, show_folders, folder_id,
                   collaborator_addresses, reader_addresses>>

add_reader_unchecked(email_address) ==
    /\ Len(collaborator_addresses) + Len(reader_addresses) < MaxAddresses
    /\ failed' = FALSE
    /\ reader_addresses' =
           Append(reader_addresses,
                  gdata_gd_email_address_new(IF email_address = NULL THEN EmptyString
                                             ELSE email_address[1],
                                             "reader", NULL, FALSE))
    /\ UNCHANGED <<show_deleted, show_folders, exact_title, folder_id, title,
                   collaborator_addresses>>

add_reader(email_address) ==
    IF ~(email_address # NULL /\ email_address[1] # EmptyString)
    THEN /\ failed' = TRUE
         /\ UNCHANGED fields
    ELSE /\ Len(collaborator_addresses) + Len(reader_addresses) < MaxAddresses
         /\ failed' = FALSE
         /\ reader_addresses' =
                Append(reader_addresses,
                       gdata_gd_email_address_new(email_address[1], "reader", NULL, FALSE))
         /\ UNCHANGED <<show_deleted, show_folders, exact_title, folder_id, title,
                        collaborator_addresses>>

add_collaborator_unchecked(email_address) ==
    /\ Len(collaborator_addresses) + Len(reader_addresses) < MaxAddresses
    /\ failed' = FALSE
    /\ collaborator_addresses' =
           Append(collaborator_addresses,
                  gdata_gd_email_address_new(IF email_address = NULL THEN EmptyString
                                             ELSE email_address[1],
                                             "collaborator", NULL, FALSE))
    /\ UNCHANGED <<show_deleted, show_folders, exact_title, folder_id, title,
                   reader_addresses>>

add_collaborator(email_address) ==
    IF ~(email_address # NULL /\ email_address[1] # EmptyString)
    THEN /\ failed' = TRUE
         /\ UNCHANGED fields
    ELSE /\ Len(collaborator_addresses) + Len(reader_addresses) < MaxAddresses
         /\ failed' = FALSE
         /\ collaborator_addresses' =
                Append(collaborator_addresses,
                       gdata_gd_email_address_new(email_address[1], "collaborator", NULL, FALSE))
         /\ UNCHANGED <<show_deleted, show_folders, exact_title, folder_id, title,
                        reader_addresses>>

(* case PROP_EXACT_TITLE: self->priv->exact_title = g_value_get_boolean (value) *)
set_property_exact_title(b) ==
    /\ exact_title' = b
    /\ UNCHANGED <<show_deleted, show_folders, folder_id, title,
                   collaborator_addresses, reader_addresses>>

----------------------------------------------------------------------------
(* Actions: one per public call *)

SetShowDeleted(b) ==
    /\ set_show_deleted(b)
    /\ call' = Call("set_show_deleted", "", NULL, b)
    /\ failed' = FALSE
    /\ NoResult
    /\ UNCHANGED base

SetShowFolders(b) ==
    /\ set_show_folders(b)
    /\ call' = Call("set_show_folders", "", NULL, b)
    /\ failed' = FALSE
    /\ NoResult
    /\ UNCHANGED base

SetFolderId(id) ==
    /\ set_folder_id(id)
    /\ call' = Call("set_folder_id", "", id, FALSE)
    /\ failed' = FALSE
    /\ NoResult
    /\ UNCHANGED base

SetTitle(t, exact) ==
    /\ set_title(t, exact)
    /\ call' = Call("set_title", "", t, exact)
    /\ failed' = FALSE
    /\ NoResult
    /\ UNCHANGED base

AddReader(email_address) ==
    /\ add_reader(email_address)
    /\ call' = Call("add_reader", "", email_address, FALSE)
    /\ NoResult
    /\ UNCHANGED base

AddCollaborator(email_address) ==
    /\ add_collaborator(email_address)
    /\ call' = Call("add_collaborator", "", email_address, FALSE)
    /\ NoResult
    /\ UNCHANGED base

(* gdata_documents_query_set_property, one action per property_id *)
SetPropertyShowDeleted(b) ==
    /\ set_show_deleted(b)
    /\ call' = Call("set_property", "show-deleted", NULL, b)
    /\ failed' = FALSE
    /\ NoResult
    /\ UNCHANGED base

SetPropertyShowFolders(b) ==
    /\ set_show_folders(b)
    /\ call' = Call("set_property", "show-folders", NULL, b)
    /\ failed' = FALSE
    /\ NoResult
    /\ UNCHANGED base

SetPropertyFolderId(id) ==
    /\ set_folder_id(id)
    /\ call' = Call("set_property", "folder-id", id, FALSE)
    /\ failed' = FALSE
    /\ NoResult
    /\ UNCHANGED base

SetPropertyExactTitle(b) ==
    /\ set_property_exact_title(b)
    /\ call' = Call("set_property", "exact-title", NULL, b)
    /\ failed' = FALSE
    /\ NoResult
    /\ UNCHANGED base

SetPropertyTitleKeepExact(t) ==
    /\ set_title(t, exact_title)
    /\ call' = Call("set_property", "title", t, FALSE)
    /\ failed' = FALSE
    /\ NoResult
    /\ UNCHANGED base

SetPropertyTitle(t) ==
    /\ set_title(t, TRUE)
    /\ call' = Call("set_property", "title", t, FALSE)
    /\ failed' = FALSE
    /\ NoResult
    /\ UNCHANGED base

(* The base query's own setters *)
SetEntryId(id) ==
    /\ entry_id' = id
    /\ call' = Call("gdata_query_set_entry_id", "", id, FALSE)
    /\ failed' = FALSE
    /\ NoResult
    /\ UNCHANGED <<fields, q>>

SetQ(v) ==
    /\ q' = v
    /\ call' = Call("gdata_query_set_q", "", v, FALSE)
    /\ failed' = FALSE
    /\ NoResult
    /\ UNCHANGED <<fields, entry_id>>

GetQueryUriConsuming(feed_uri) ==
    LET c1 == append_folder(query_context(feed_uri), entry_id, folder_id)
        c2 == parent_get_query_uri(c1, entry_id, q)
        c3 == after_chain_up(c2, entry_id, collaborator_addresses, reader_addresses,
                             title, exact_title, show_deleted, show_folders)
    IN  /\ query_uri' = c3.uri
        /\ params_started' = c3.started
        /\ chained_uri' = c2.uri
        /\ chained_started' = c2.started
        /\ call' = Call("get_query_uri", "", Str(feed_uri), FALSE)
        /\ failed' = FALSE
        /\ collaborator_addresses' = << >>
        /\ UNCHANGED <<show_deleted, show_folders, exact_title, folder_id, title,
                       reader_addresses, base>>

(* gdata_query_get_query_uri (query, feed_uri), dispatching to get_query_uri *)
GetQueryUri(feed_uri) ==
    LET c1 == append_folder(query_context(feed_uri), entry_id, folder_id)
        c2 == parent_get_query_uri(c1, entry_id, q)
        c3 == after_chain_up(c2, entry_id, collaborator_addresses, reader_addresses,
                             title, exact_title, show_deleted, show_folders)
    IN  /\ query_uri' = c3.uri
        /\ params_started' = c3.started
        /\ chained_uri' = c2.uri
        /\ chained_started' = c2.started
        /\ call' = Call("get_query_uri", "", Str(feed_uri), FALSE)
        /\ failed' = FALSE
        /\ UNCHANGED <<fields, base>>

Next ==
    \/ \E b \in BOOLEAN : SetShowDeleted(b)
    \/ \E b \in BOOLEAN : SetShowFolders(b)
    \/ \E id \in Nullable(FolderIds) : SetFolderId(id)
    \/ \E t \in Nullable(Titles), exact \in BOOLEAN : SetTitle(t, exact)
    \/ \E a \in Nullable(Addresses \cup {EmptyString}) : AddReader(a)
    \/ \E a \in Nullable(Addresses \cup {EmptyString}) : AddCollaborator(a)
    \/ \E b \in BOOLEAN : SetPropertyShowDeleted(b)
    \/ \E b \in BOOLEAN : SetPropertyShowFolders(b)
    \/ \E id \in Nullable(FolderIds) : SetPropertyFolderId(id)
    \/ \E b \in BOOLEAN : SetPropertyExactTitle(b)
    \/ \E t \in Nullable(Titles) : SetPropertyTitle(t)
    \/ \E id \in Nullable(EntryIds) : SetEntryId(id)
    \/ \E v \in Nullable(Qs) : SetQ(v)
    \/ \E f \in FeedUris : GetQueryUri(f)

Spec == Init /\ [][Next]_vars

----------------------------------------------------------------------------
(* Reading a composed URI back: where a substring occurs, and the value of  *)
(* a parameter (the characters after its name up to the next "&").          *)

IsAt(s, sub, i) ==
    /\ i >= 1
    /\ i + Len(sub) - 1 <= Len(s)
    /\ \A j \in 1..Len(sub) : s[i + j - 1] = sub[j]

Occ(s, sub) == { i \in 1..Len(s) : IsAt(s, sub, i) }

Contains(s, sub) == Occ(s, sub) # {}

FirstOcc(s, sub) == CHOOSE i \in Occ(s, sub) : \A j \in Occ(s, sub) : i <= j

ValueEnd(s, from) ==
    IF \E k \in from..Len(s) : s[k] = "&"
    THEN (CHOOSE k \in from..Len(s) : s[k] = "&" /\ \A m \in from..(k - 1) : s[m] # "&") - 1
    ELSE Len(s)

ParamValue(s, name) ==
    LET from == FirstOcc(s, name) + Len(name)
    IN  SubSeq(s, from, ValueEnd(s, from))

RECURSIVE JoinSemicolon(_)
JoinSemicolon(strs) ==
    IF Len(strs) = 1 THEN strs[1]
    ELSE strs[1] \o <<";">> \o JoinSemicolon(Tail(strs))

EscapedAddresses(list) == [i \in 1..Len(list) |-> uri_escaped(list[i].address)]

BoolText(b) == IF b THEN <<"t", "r", "u", "e">> ELSE <<"f", "a", "l", "s", "e">>

NameShowDeleted == <<"s", "h", "o", "w", "d", "e", "l", "e", "t", "e", "d", "=">>

NameShowFolders == <<"s", "h", "o", "w", "f", "o", "l", "d", "e", "r", "s", "=">>

NameTitleExact == <<"t", "i", "t", "l", "e", "-", "e", "x", "a", "c", "t", "=">>

ParamNames == <<LitWriter, LitReader, LitTitle, NameShowDeleted, NameShowFolders>>

Composed == call.op = "get_query_uri"

Feed == call.str[1]

----------------------------------------------------------------------------
(* C1.  Short-circuit: when the base query's entry_id is present, the URI   *)
(* returned by get_query_uri is exactly the buffer as the parent class step *)
(* left it, so it holds no writer=, reader=, title=, showdeleted= or        *)
(* showfolders= parameter, whatever the documents fields are.               *)
C1_ShortCircuit ==
    (Composed /\ entry_id # NULL) =>
        /\ query_uri = chained_uri
        /\ params_started = chained_started
        /\ \A k \in 1..5 : ~Contains(query_uri, ParamNames[k])
        /\ ~Contains(query_uri, NameTitleExact)

C1_Witness ==
    /\ Composed
    /\ entry_id # NULL
    /\ folder_id # NULL
    /\ title # NULL
    /\ exact_title
    /\ show_deleted
    /\ collaborator_addresses # << >>
    /\ reader_addresses # << >>

(* C2 as stated.  showdeleted and showfolders are present in every composed *)
(* URI with the stored values, whatever the other fields and entry_id are.  *)
C2_Original ==
    Composed =>
        /\ Contains(query_uri, NameShowDeleted \o BoolText(show_deleted))
        /\ Contains(query_uri, NameShowFolders \o BoolText(show_folders))

(* C2, amended.  When the base query's entry_id is absent, the composed URI *)
(* holds exactly one showdeleted and exactly one showfolders parameter,     *)
(* with the values of the stored booleans, whatever the other fields are;   *)
(* when entry_id is present, it holds neither.                              *)
C2_VisibilityFlags ==
    Composed =>
        IF entry_id = NULL
        THEN /\ Cardinality(Occ(query_uri, NameShowDeleted)) = 1
             /\ Cardinality(Occ(query_uri, NameShowFolders)) = 1
             /\ ParamValue(query_uri, NameShowDeleted) = BoolText(show_deleted)
             /\ ParamValue(query_uri, NameShowFolders) = BoolText(show_folders)
        ELSE /\ ~Contains(query_uri, NameShowDeleted)
             /\ ~Contains(query_uri, NameShowFolders)

C2_Witness ==
    /\ Composed
    /\ entry_id = NULL
    /\ show_deleted
    /\ ~show_folders
    /\ title # NULL
    /\ folder_id # NULL
    /\ collaborator_addresses # << >>

(* C3.  Folder path extension: when entry_id is absent and folder_id is     *)
(* set, /folder%3A and the percent-escaped folder_id directly follow the    *)
(* feed URI, already in the buffer handed to the parent class step, and     *)
(* every "?" of the output comes after them; when entry_id is present or    *)
(* folder_id is unset, the output holds no /folder%3A segment.              *)
C3_FolderPath ==
    Composed =>
        IF entry_id = NULL /\ folder_id # NULL
        THEN LET segment == LitFolder \o uri_escaped(folder_id[1])
                 last == Len(Feed) + Len(segment)
             IN  /\ IsAt(query_uri, segment, Len(Feed) + 1)
                 /\ IsAt(chained_uri, segment, Len(Feed) + 1)
                 /\ Cardinality(Occ(query_uri, LitFolder)) = 1
                 /\ \A i \in Occ(query_uri, <<"?">>) : i > last
                 /\ folder_id = Str(<<"a", ":">>) =>
                        IsAt(query_uri,
                             <<"/", "f", "o", "l", "d", "e", "r", "%", "3", "A",
                               "a", "%", "3", "A">>,
                             Len(Feed) + 1)
        ELSE ~Contains(query_uri, LitFolder)

C3_Witness ==
    /\ Composed
    /\ entry_id = NULL
    /\ folder_id = Str(<<"a", ":">>)
    /\ q # NULL
    /\ Contains(query_uri, <<"?">>)

(* C4.  List-valued parameters: with entry_id absent, the composed URI      *)
(* holds a writer= parameter exactly when collaborator_addresses is         *)
(* non-empty, and then exactly one, whose value is the percent-escaped      *)
(* addresses joined by ";" in the order they were added, with no leading or *)
(* trailing ";"; the same for reader= and reader_addresses.                 *)
C4_AddressLists ==
    (Composed /\ entry_id = NULL) =>
        /\ Cardinality(Occ(query_uri, LitWriter)) =
               (IF collaborator_addresses # << >> THEN 1 ELSE 0)
        /\ Cardinality(Occ(query_uri, LitReader)) =
               (IF reader_addresses # << >> THEN 1 ELSE 0)
        /\ collaborator_addresses # << >> =>
               ParamValue(query_uri, LitWriter) =
                   JoinSemicolon(EscapedAddresses(collaborator_addresses))
        /\ reader_addresses # << >> =>
               ParamValue(query_uri, LitReader) =
                   JoinSemicolon(EscapedAddresses(reader_addresses))
        /\ (Len(reader_addresses) = 2
            /\ reader_addresses[1].address = <<"a", "@">>
            /\ reader_addresses[2].address = <<"b", ";">>) =>
               Contains(query_uri,
                        <<"r", "e", "a", "d", "e", "r", "=",
                          "a", "%", "4", "0", ";", "b", "%", "3", "B", "&">>)

C4_Witness ==
    /\ Composed
    /\ entry_id = NULL
    /\ Len(collaborator_addresses) = 2
    /\ collaborator_addresses[1].address = <<"b", ";">>
    /\ collaborator_addresses[2].address = <<"a", "@">>
    /\ ParamValue(query_uri, LitWriter) = <<"b", "%", "3", "B", ";", "a", "%", "4", "0">>

(* C5.  Fixed parameter order: with entry_id absent, the composed URI       *)
(* starts with the buffer as the parent class step left it, every documents *)
(* parameter lies after it, the emitted ones among writer, reader, title,   *)
(* showdeleted, showfolders appear in that order, and &title-exact=true,    *)
(* when emitted, directly follows the title value.                          *)
C5_ParameterOrder ==
    (Composed /\ entry_id = NULL) =>
        /\ Len(chained_uri) <= Len(query_uri)
        /\ SubSeq(query_uri, 1, Len(chained_uri)) = chained_uri
        /\ \A k \in 1..5 : \A i \in Occ(query_uri, ParamNames[k]) : i > Len(chained_uri)
        /\ \A k \in 1..5 : \A m \in 1..5 :
               k < m => \A i \in Occ(query_uri, ParamNames[k]) :
                            \A j \in Occ(query_uri, ParamNames[m]) : i < j
        /\ Contains(query_uri, NameShowDeleted)
        /\ Contains(query_uri, NameShowFolders)
        /\ \A i \in Occ(query_uri, LitTitleExact) :
               /\ Contains(query_uri, LitTitle)
               /\ i = FirstOcc(query_uri, LitTitle) + Len(LitTitle)
                          + Len(ParamValue(query_uri, LitTitle))
               /\ i < FirstOcc(query_uri, NameShowDeleted)

C5_Witness ==
    /\ Composed
    /\ entry_id = NULL
    /\ q # NULL
    /\ collaborator_addresses # << >>
    /\ reader_addresses # << >>
    /\ title # NULL
    /\ exact_title
    /\ FirstOcc(query_uri, LitWriter) < FirstOcc(query_uri, LitReader)
    /\ FirstOcc(query_uri, LitReader) < FirstOcc(query_uri, LitTitle)

(* C6.  Title: with entry_id absent, title=<escaped title> is emitted       *)
(* exactly when title is set, the empty string counting as set (an empty    *)
(* value), and &title-exact=true is emitted, directly after the title       *)
(* value, exactly when title is set and exact_title is true.                *)
C6_Title ==
    (Composed /\ entry_id = NULL) =>
        /\ Contains(query_uri, LitTitle) <=> (title # NULL)
        /\ Cardinality(Occ(query_uri, LitTitle)) <= 1
        /\ title # NULL => ParamValue(query_uri, LitTitle) = uri_escaped(title[1])
        /\ title = Str(EmptyString) => ParamValue(query_uri, LitTitle) = << >>
        /\ title = Str(<<"A", " ", "b">>) =>
               ParamValue(query_uri, LitTitle) = <<"A", "%", "2", "0", "b">>
        /\ Contains(query_uri, NameTitleExact) <=> (title # NULL /\ exact_title)
        /\ (title # NULL /\ exact_title) =>
               IsAt(query_uri, LitTitleExact \o <<"&">> \o NameShowDeleted,
                    FirstOcc(query_uri, LitTitle) + Len(LitTitle)
                        + Len(uri_escaped(title[1])))
        /\ (title # NULL /\ ~exact_title) =>
               IsAt(query_uri, <<"&">> \o NameShowDeleted,
                    FirstOcc(query_uri, LitTitle) + Len(LitTitle)
                        + Len(uri_escaped(title[1])))

C6_Witness ==
    /\ Composed
    /\ entry_id = NULL
    /\ title = Str(EmptyString)
    /\ exact_title
    /\ Contains(query_uri, LitTitle \o LitTitleExact)

(* C7.  Composition is read-only and repeatable: a get_query_uri call       *)
(* leaves every documents field and the base query unchanged, and a call    *)
(* that repeats the previous one (same feed URI, nothing set in between)    *)
(* returns the same string.                                                 *)
C7_ReadOnly ==
    [][ (call'.op = "get_query_uri") =>
            /\ fields' = fields
            /\ base' = base
            /\ (call = call' => query_uri' = query_uri) ]_vars

C7_Witness ==
    /\ Composed
    /\ collaborator_addresses # << >>
    /\ reader_addresses # << >>
    /\ title # NULL
    /\ folder_id # NULL
    /\ query_uri # << >>

(* C8.  Rejected add: add_collaborator or add_reader with a NULL or empty   *)
(* address stops at its precondition and leaves both address lists and all  *)
(* other fields as they were.                                               *)
C8_RejectedAdd ==
    [][ (/\ call'.op \in {"add_collaborator", "add_reader"}
         /\ (call'.str = NULL \/ call'.str = Str(EmptyString))) =>
            /\ failed'
            /\ fields' = fields
            /\ base' = base ]_vars

C8_Witness ==
    /\ failed
    /\ call.op = "add_collaborator"
    /\ call.str = Str(EmptyString)
    /\ collaborator_addresses # << >>
    /\ reader_addresses # << >>

(* C9.  Setter frame: set_folder_id, set_show_deleted, set_show_folders,    *)
(* add_collaborator and add_reader each change only their own field (an add *)
(* that is accepted appends one principal with the given address at the     *)
(* end), and set_title changes only title and exact_title.                  *)
C9_SetterFrame ==
    [][ /\ call'.op = "set_show_deleted" =>
               /\ show_deleted' = call'.flag
               /\ <<show_folders, exact_title, folder_id, title,
                    collaborator_addresses, reader_addresses>>' =
                  <<show_folders, exact_title, folder_id, title,
                    collaborator_addresses, reader_addresses>>
        /\ call'.op = "set_show_folders" =>
               /\ show_folders' = call'.flag
               /\ <<show_deleted, exact_title, folder_id, title,
                    collaborator_addresses, reader_addresses>>' =
                  <<show_deleted, exact_title, folder_id, title,
                    collaborator_addresses, reader_addresses>>
        /\ call'.op = "set_folder_id" =>
               /\ folder_id' = call'.str
               /\ <<show_deleted, show_folders, exact_title, title,
                    collaborator_addresses, reader_addresses>>' =
                  <<show_deleted, show_folders, exact_title, title,
                    collaborator_addresses, reader_addresses>>
        /\ call'.op = "set_title" =>
               /\ title' = call'.str
               /\ exact_title' = call'.flag
               /\ <<show_deleted, show_folders, folder_id,
                    collaborator_addresses, reader_addresses>>' =
                  <<show_deleted, show_folders, folder_id,
                    collaborator_addresses, reader_addresses>>
        /\ call'.op = "add_collaborator" =>
               /\ ~failed' =>
                      /\ Len(collaborator_addresses') = Len(collaborator_addresses) + 1
                      /\ SubSeq(collaborator_addresses', 1, Len(collaborator_addresses))
                             = collaborator_addresses
                      /\ collaborator_addresses'[Len(collaborator_addresses')].address
                             = call'.str[1]
               /\ <<show_deleted, show_folders, exact_title, folder_id, title,
                    reader_addresses>>' =
                  <<show_deleted, show_folders, exact_title, folder_id, title,
                    reader_addresses>>
        /\ call'.op = "add_reader" =>
               /\ ~failed' =>
                      /\ Len(reader_addresses') = Len(reader_addresses) + 1
                      /\ SubSeq(reader_addresses', 1, Len(reader_addresses))
                             = reader_addresses
                      /\ reader_addresses'[Len(reader_addresses')].address
                             = call'.str[1]
               /\ <<show_deleted, show_folders, exact_title, folder_id, title,
                    collaborator_addresses>>' =
                  <<show_deleted, show_folders, exact_title, folder_id, title,
                    collaborator_addresses>>
        /\ call'.op \in {"set_show_deleted", "set_show_folders", "set_folder_id",
                         "set_title", "add_collaborator", "add_reader"} =>
               base' = base ]_vars

C9_Witness ==
    /\ call.op = "set_show_deleted"
    /\ show_deleted
    /\ ~show_folders
    /\ title # NULL
    /\ folder_id # NULL
    /\ collaborator_addresses # << >>
    /\ reader_addresses # << >>

(* C10 as stated.  Clearing the title leaves exact_title at the value it    *)
(* had before the title was cleared.                                        *)
C10_Original ==
    [][ (title # NULL /\ title' = NULL) => exact_title' = exact_title ]_vars

(* C10, amended.  exact_title is stored whether or not title is set, and    *)
(* clearing the title does not force it to false: set_title (NULL, exact)   *)
(* stores the exact argument of that call, and a write of NULL to the       *)
(* "title" property stores TRUE; the title can be cleared in no other way.  *)
C10_ExactTitleOnClear ==
    [][ (title # NULL /\ title' = NULL) =>
            \/ /\ call'.op = "set_title"
               /\ call'.str = NULL
               /\ exact_title' = call'.flag
            \/ /\ call'.op = "set_property"
               /\ call'.prop = "title"
               /\ call'.str = NULL
               /\ exact_title' = TRUE ]_vars

C10_Witness ==
    /\ call.op = "set_title"
    /\ call.str = NULL
    /\ call.flag
    /\ title = NULL
    /\ exact_title

(* C11.  Errors are never deferred to composition: in every state reached   *)
(* from a new query by setter and add calls, rejected ones included, every  *)
(* principal of both lists has a non-empty address, a rejected add is the   *)
(* only call that fails, and get_query_uri completes and returns a URI that *)
(* starts with the feed URI.                                                *)
C11_NoDeferredError ==
    /\ \A i \in 1..Len(collaborator_addresses) :
           collaborator_addresses[i].address # EmptyString
    /\ \A i \in 1..Len(reader_addresses) :
           reader_addresses[i].address # EmptyString
    /\ failed => call.op \in {"add_collaborator", "add_reader"}
    /\ Composed =>
           /\ ~failed
           /\ Len(query_uri) >= Len(Feed)
           /\ SubSeq(query_uri, 1, Len(Feed)) = Feed
           /\ Cardinality(Occ(query_uri, <<"=", ";">>)) = 0
           /\ Cardinality(Occ(query_uri, <<";", ";">>)) = 0
           /\ Cardinality(Occ(query_uri, <<";", "&">>)) = 0

C11_Witness ==
    /\ Composed
    /\ ~failed
    /\ entry_id = NULL
    /\ Len(reader_addresses) = 1
    /\ Len(collaborator_addresses) = 1
    /\ title = NULL
    /\ folder_id = NULL

(* What the documents query appended after the chain-up, the separators in *)
(* it, and the parameters the fields call for.                              *)
Appended == SubSeq(query_uri, Len(chained_uri) + 1, Len(query_uri))

Separators(s) == { i \in 1..Len(s) : s[i] \in {"?", "&"} }

EmittedCount ==
    (IF collaborator_addresses # << >> THEN 1 ELSE 0)
    + (IF reader_addresses # << >> THEN 1 ELSE 0)
    + (IF title # NULL THEN (IF exact_title THEN 2 ELSE 1) ELSE 0)
    + 2

FirstEmitted ==
    IF collaborator_addresses # << >> THEN LitWriter
    ELSE IF reader_addresses # << >> THEN LitReader
    ELSE IF title # NULL THEN LitTitle
    ELSE NameShowDeleted

(* C12.  Separator discipline: with entry_id absent, what the documents     *)
(* query appends after the chain-up holds one separator per emitted         *)
(* parameter and no other; the first is "?" exactly when the chain-up left  *)
(* params_started false, every later one is "&", so at most one "?" is      *)
(* appended; a skipped parameter (empty list, unset title) leaves no        *)
(* separator behind; and params_started is true on return.                  *)
C12_Separators ==
    (Composed /\ entry_id = NULL) =>
        /\ params_started = TRUE
        /\ Cardinality(Separators(Appended)) = EmittedCount
        /\ Cardinality(Occ(Appended, <<"?">>)) = (IF chained_started THEN 0 ELSE 1)
        /\ Appended[1] = (IF chained_started THEN "&" ELSE "?")
        /\ IsAt(Appended, FirstEmitted, 2)
        /\ \A i \in Separators(Appended) : i > 1 => Appended[i] = "&"
        /\ \A i \in Separators(Appended) :
               /\ i < Len(Appended)
               /\ (i + 1) \notin Separators(Appended)
        /\ \A k \in 1..5 : \A i \in Occ(Appended, ParamNames[k]) :
               (i - 1) \in Separators(Appended)
        /\ \A i \in Occ(Appended, NameTitleExact) : Appended[i - 1] = "&"

C12_Witness ==
    /\ Composed
    /\ entry_id = NULL
    /\ q = NULL
    /\ ~chained_started
    /\ collaborator_addresses = << >>
    /\ reader_addresses # << >>
    /\ title # NULL
    /\ Appended[1] = "?"
    /\ IsAt(Appended, LitReader, 2)

(* C13.  Property writes: writing "title" stores the title and sets         *)
(* exact_title to TRUE whatever it was; writing "exact-title" changes only  *)
(* exact_title; writing "show-deleted", "show-folders" or "folder-id" does  *)
(* what the direct setter does.  So "exact-title" = FALSE followed by       *)
(* "title" ends with exact_title TRUE, and the two writes in the other      *)
(* order end with exact_title FALSE.                                        *)
C13_PropertyWrites ==
    [][ call'.op = "set_property" =>
            /\ base' = base
            /\ ~failed'
            /\ call'.prop = "title" =>
                   /\ title' = call'.str
                   /\ exact_title' = TRUE
                   /\ <<show_deleted, show_folders, folder_id,
                        collaborator_addresses, reader_addresses>>' =
                      <<show_deleted, show_folders, folder_id,
                        collaborator_addresses, reader_addresses>>
            /\ call'.prop = "exact-title" =>
                   /\ exact_title' = call'.flag
                   /\ <<show_deleted, show_folders, folder_id, title,
                        collaborator_addresses, reader_addresses>>' =
                      <<show_deleted, show_folders, folder_id, title,
                        collaborator_addresses, reader_addresses>>
            /\ call'.prop = "show-deleted" =>
                   /\ show_deleted' = call'.flag
                   /\ <<show_folders, exact_title, folder_id, title,
                        collaborator_addresses, reader_addresses>>' =
                      <<show_folders, exact_title, folder_id, title,
                        collaborator_addresses, reader_addresses>>
            /\ call'.prop = "show-folders" =>
                   /\ show_folders' = call'.flag
                   /\ <<show_deleted, exact_title, folder_id, title,
                        collaborator_addresses, reader_addresses>>' =
                      <<show_deleted, exact_title, folder_id, title,
                        collaborator_addresses, reader_addresses>>
            /\ call'.prop = "folder-id" =>
                   /\ folder_id' = call'.str
                   /\ <<show_deleted, show_folders, exact_title, title,
                        collaborator_addresses, reader_addresses>>' =
                      <<show_deleted, show_folders, exact_title, title,
                        collaborator_addresses, reader_addresses>>
            /\ (/\ call.op = "set_property"
                /\ call.prop = "exact-title"
                /\ call.flag = FALSE
                /\ call'.prop = "title") =>
                   (exact_title = FALSE /\ exact_title' = TRUE)
            /\ (/\ call.op = "set_property"
                /\ call.prop = "title"
                /\ call'.prop = "exact-title"
                /\ call'.flag = FALSE) =>
                   (exact_title = TRUE /\ exact_title' = FALSE) ]_vars

C13_Witness ==
    /\ call.op = "set_property"
    /\ call.prop = "title"
    /\ title # NULL
    /\ exact_title
    /\ show_deleted
    /\ collaborator_addresses # << >>

====
